---- MODULE Spec2Model ----
(***************************************************************************)
(* Attendance reconciliation model of epitok: an Event's roster of         *)
(* Students, the presence mutators, the roster fetch from the intranet and *)
(* the upload of the roster, the listing of the events of a day and the    *)
(* sign-in (src/src/event.rs, student.rs, intra.rs, auth.rs).              *)
(***************************************************************************)
EXTENDS Integers, Sequences, FiniteSets, TLC

VARIABLES
    students,   \* Event.students: the roster, a sequence of Student records
    last,       \* the last operation called on the event, its arguments and its result
    events,     \* the caller's Vec<Event> handed to list_events
    listed,     \* the last call that talks to the intranet, its arguments and its result
    auth        \* the Auth of the session: autologin, login, name and status

vars == <<students, last, events, listed, auth>>

(***************************************************************************)
(* Bounds and input sets                                                   *)
(***************************************************************************)
\* longest JSON array the intranet answers with (hence the longest roster)
MaxStudents == 2

\* Option<&str>: None is <<>>, Some(s) is <<s>>
Null == <<>>
Some(s) == <<s>>

Logins == {"a@x", "b@x"}
Names == {"Ann"}
\* values of the "present" field of a registered student in a reply
PresentFields == {Null, Some(""), Some("present")}

\* HTTP status codes tested by the transport helper
OK == 200
FORBIDDEN == 403
NOT_FOUND == 404
Statuses == {OK, FORBIDDEN, NOT_FOUND, 500}

(***************************************************************************)
(* Presence (student.rs)                                                   *)
(***************************************************************************)
Presence == {"None", "Present", "Missing", "NotApplicable", "Failed"}

\* the five strings the Display implementation can emit
WireStrings == {"", "present", "absent", "N/A", "failed"}

\* a text that is not recognised read as no presence at all
Presence_from_lax(s) ==
    CASE s \in {"present", "Present"} -> "Present"
      [] s \in {"absent", "Missing"} -> "Missing"
      [] s \in {"N/A", "NotApplicable"} -> "NotApplicable"
      [] s \in {"failed", "Failed"} -> "Failed"
      [] OTHER -> "None"

Presence_from(s) ==
    CASE s = "present" -> "Present"
      [] s = "Present" -> "Present"
      [] s = "absent" -> "Missing"
      [] s = "Missing" -> "Missing"
      [] s = "N/A" -> "NotApplicable"
      [] s = "NotApplicable" -> "NotApplicable"
      [] s = "failed" -> "Failed"
      [] s = "Failed" -> "Failed"
      [] s = "None" -> "None"
      [] OTHER -> "Failed"

Presence_to_string(p) ==
    CASE p = "None" -> ""
      [] p = "Present" -> "present"
      [] p = "Missing" -> "absent"
      [] p = "NotApplicable" -> "N/A"
      [] p = "Failed" -> "failed"

(***************************************************************************)
(* Student (student.rs)                                                    *)
(***************************************************************************)
Student == [login : Logins, name : Names, presence : Presence]

\* a presence that can be decided once only: a strict progression from None
Student_set_presence_once(student, presence) ==
    IF student.presence = "None"
    THEN [student EXCEPT !.presence = presence]
    ELSE student

Student_set_presence(student, presence) ==
    [student EXCEPT !.presence = presence]

(***************************************************************************)
(* Transport helper (intra.rs)                                             *)
(***************************************************************************)
\* a registered student as the intranet sends it: the three fields read by
\* fetch_students, each absent (Null) or a string; a record without a login
\* or without a name is rejected whatever its other fields hold
RawStudents ==
    [login : {Some(l) : l \in Logins}, title : {Some(n) : n \in Names},
     present : PresentFields]
        \cup {[login |-> Null, title |-> Some(n), present |-> Null] : n \in Names}
        \cup {[login |-> Some(l), title |-> Null, present |-> Null] : l \in {"a@x"}}

RECURSIVE SeqsUpTo(_, _)
SeqsUpTo(S, n) ==
    IF n = 0 THEN {<<>>}
    ELSE LET shorter == SeqsUpTo(S, n - 1)
         IN shorter \cup {Append(q, x) : q \in {r \in shorter : Len(r) = n - 1}, x \in S}

\* the body of a reply: no text, text that is not a JSON array, or a JSON array
Bodies ==
    {[kind |-> "empty", items |-> <<>>], [kind |-> "garbage", items |-> <<>>]}
        \cup {[kind |-> "array", items |-> q] : q \in SeqsUpTo(RawStudents, MaxStudents)}

NoBody == [kind |-> "empty", items |-> <<>>]

\* what a request can meet: no connection, a status, a body that cannot be read
Replies ==
    {[conn |-> FALSE, status |-> OK, readable |-> TRUE, body |-> NoBody]}
        \cup {[conn |-> TRUE, status |-> s, readable |-> TRUE, body |-> NoBody] :
                s \in Statuses \ {OK}}
        \cup {[conn |-> TRUE, status |-> OK, readable |-> FALSE, body |-> NoBody]}
        \cup {[conn |-> TRUE, status |-> OK, readable |-> TRUE, body |-> b] : b \in Bodies}

NoReply == [conn |-> FALSE, status |-> OK, readable |-> TRUE, body |-> NoBody]

\* what a POST can meet: update_presences reads the status only
PostReplies ==
    {[conn |-> FALSE, status |-> OK, readable |-> TRUE, body |-> NoBody]}
        \cup {[conn |-> TRUE, status |-> s, readable |-> TRUE, body |-> NoBody] :
                s \in Statuses}

\* Result<_, Error>
Ok(v) == [ok |-> TRUE, val |-> v, err |-> ""]
Err(e) == [ok |-> FALSE, val |-> 0, err |-> e]

get_content(reply) ==
    IF ~reply.conn THEN Err("Network")
    ELSE IF reply.status = FORBIDDEN THEN Err("AccessDenied")
    ELSE IF reply.status = NOT_FOUND THEN Err("NotFound")
    ELSE IF reply.status # OK THEN Err("IntraDown")
    ELSE IF ~reply.readable THEN Err("Parsing")
    ELSE [ok |-> TRUE, val |-> reply.body, err |-> ""]

get_array_obj(reply) ==
    LET intra_request == get_content(reply)
    IN IF ~intra_request.ok THEN intra_request
       ELSE IF intra_request.val.kind = "array"
            THEN [ok |-> TRUE, val |-> intra_request.val.items, err |-> ""]
            ELSE Err("Empty")

update_presences(reply) ==
    IF ~reply.conn THEN Err("Network")
    ELSE IF reply.status = FORBIDDEN THEN Err("AccessDenied")
    ELSE IF reply.status # OK THEN Err("IntraDown")
    ELSE Ok(0)

(***************************************************************************)
(* Roster fetch (student.rs)                                               *)
(***************************************************************************)
\* the for loop of fetch_students from record i on: list and the result
RECURSIVE fetch_students_loop(_, _, _, _)
fetch_students_loop(list, json, i, number_students) ==
    IF i > Len(json) THEN [list |-> list, ret |-> Ok(number_students)]
    ELSE IF json[i].login = Null THEN [list |-> list, ret |-> Err("Login")]
    ELSE IF json[i].title = Null THEN [list |-> list, ret |-> Err("Name")]
    ELSE LET presence == IF json[i].present = Null THEN "None"
                         ELSE Presence_from(json[i].present[1])
             student == [login |-> json[i].login[1],
                         name |-> json[i].title[1],
                         presence |-> presence]
         IN fetch_students_loop(Append(list, student), json, i + 1, number_students + 1)

\* a fetch without list.clear(): the students are pushed after the earlier ones
fetch_students_appending(list, reply) ==
    LET json == get_array_obj(reply)
    IN IF ~json.ok
       THEN IF json.err = "Empty"
            THEN [list |-> list, ret |-> Ok(0)]
            ELSE [list |-> list, ret |-> json]
       ELSE fetch_students_loop(list, json.val, 1, 0)

fetch_students(list, reply) ==
    LET json == get_array_obj(reply)
    IN IF ~json.ok
       THEN IF json.err = "Empty"
            THEN [list |-> list, ret |-> Ok(0)]
            ELSE [list |-> list, ret |-> json]
       ELSE fetch_students_loop(<<>>, json.val, 1, 0)

(***************************************************************************)
(* Event mutators and upload (event.rs)                                    *)
(***************************************************************************)
\* a find whose predicate does not compare the login: the first student, if any
find_any(list, login) ==
    IF Len(list) > 0 THEN 1 ELSE 0

\* iter_mut().find(|s| s.get_login() == login): position of the first match, 0 if none
find(list, login) ==
    IF \E i \in 1..Len(list) : list[i].login = login
    THEN CHOOSE i \in 1..Len(list) :
            /\ list[i].login = login
            /\ \A j \in 1..(i - 1) : list[j].login # login
    ELSE 0

set_student_presence(list, login, presence) ==
    LET student == find(list, login)
    IN IF student = 0
       THEN [students |-> list, ret |-> FALSE]
       ELSE [students |-> [list EXCEPT ![student] = Student_set_presence(@, presence)],
             ret |-> TRUE]

set_all_students_presence(list, presence) ==
    [i \in 1..Len(list) |-> Student_set_presence(list[i], presence)]

\* the test on Presence::None inverted: the decided students are overwritten
set_remaining_decided(list, presence) ==
    [i \in 1..Len(list) |->
        IF list[i].presence # "None"
        THEN [list[i] EXCEPT !.presence = presence]
        ELSE list[i]]

\* the loop left at the first student found at None
set_remaining_first(list, presence) ==
    [i \in 1..Len(list) |->
        IF list[i].presence = "None" /\ \A j \in 1..(i - 1) : list[j].presence # "None"
        THEN [list[i] EXCEPT !.presence = presence]
        ELSE list[i]]

\* the test on Presence::None left out: every student is overwritten
set_remaining_everyone(list, presence) ==
    [i \in 1..Len(list) |-> [list[i] EXCEPT !.presence = presence]]

set_remaining_students_presence(list, presence) ==
    [i \in 1..Len(list) |->
        IF list[i].presence = "None"
        THEN Student_set_presence(list[i], presence)
        ELSE list[i]]

\* format!("items[{}][login]", i) and format!("items[{}][present]", i)
login_k(i) == "items[" \o ToString(i) \o "][login]"
presence_k(i) == "items[" \o ToString(i) \o "][present]"

\* the keys numbered from one instead of zero
export_students_from_one(list) ==
    [k \in {login_k(i) : i \in 1..Len(list)} \cup {presence_k(i) : i \in 1..Len(list)} |->
        LET i == CHOOSE j \in 1..Len(list) : k \in {login_k(j), presence_k(j)}
        IN IF k = presence_k(i) THEN Presence_to_string(list[i].presence) ELSE list[i].login]

\* the HashMap after the loop: a later insert of a key replaces an earlier one
export_students(list) ==
    LET keys == {login_k(i - 1) : i \in 1..Len(list)}
                    \cup {presence_k(i - 1) : i \in 1..Len(list)}
        lastInsert(k) ==
            CHOOSE i \in 1..Len(list) :
                /\ k \in {login_k(i - 1), presence_k(i - 1)}
                /\ \A j \in (i + 1)..Len(list) : k \notin {login_k(j - 1), presence_k(j - 1)}
    IN [k \in keys |->
            LET i == lastInsert(k)
            IN IF k = presence_k(i - 1)
               THEN Presence_to_string(list[i].presence)
               ELSE list[i].login]

save_changes(list, reply) ==
    LET posted == export_students(list)
    IN [students |-> list, posted |-> posted, ret |-> update_presences(reply)]

(***************************************************************************)
(* Dates and times (chrono, as event.rs uses it)                           *)
(***************************************************************************)
\* a text handed to a chrono parser: of the shape YYYY-MM-DD ("date"), of the
\* shape YYYY-MM-DD HH:MM:SS ("datetime"), or of no such shape ("text")
Text == [kind |-> "text", y |-> 0, mo |-> 0, d |-> 0, h |-> 0, mi |-> 0, s |-> 0]
Ymd(y, mo, d) == [Text EXCEPT !.kind = "date", !.y = y, !.mo = mo, !.d = d]
Ymdhms(y, mo, d, h, mi, s) ==
    [kind |-> "datetime", y |-> y, mo |-> mo, d |-> d, h |-> h, mi |-> mi, s |-> s]

IsLeap(y) == y % 4 = 0 /\ (y % 100 # 0 \/ y % 400 = 0)

DaysIn(y, mo) ==
    IF mo = 2 THEN (IF IsLeap(y) THEN 29 ELSE 28)
    ELSE IF mo \in {4, 6, 9, 11} THEN 30 ELSE 31

IsCalendarDate(t) == t.mo \in 1..12 /\ t.d \in 1..DaysIn(t.y, t.mo)

\* chrono::NaiveDate::parse_from_str(raw, "%Y-%m-%d").is_ok()
NaiveDate_parse_from_str(raw) == raw.kind = "date" /\ IsCalendarDate(raw)

\* chrono::NaiveDateTime::parse_from_str(raw, "%Y-%m-%d %H:%M:%S").is_ok()
NaiveDateTime_parse_from_str(raw) ==
    /\ raw.kind = "datetime"
    /\ IsCalendarDate(raw)
    /\ raw.h \in 0..23 /\ raw.mi \in 0..59 /\ raw.s \in 0..60

Pad2(n) == IF n < 10 THEN "0" \o ToString(n) ELSE ToString(n)

\* NaiveDateTime::format("%H:%M").to_string()
format_HM(t) == Pad2(t.h) \o ":" \o Pad2(t.mi)

(***************************************************************************)
(* Event construction and listing (event.rs)                               *)
(***************************************************************************)
\* longest JSON array the planning answers with
MaxEvents == 2

\* parse_time with a missing field read as midnight instead of the error
parse_time_or_midnight(json, time) ==
    IF json[time] = Null THEN Some("00:00")
    ELSE IF NaiveDateTime_parse_from_str(json[time][1])
         THEN Some(format_HM(json[time][1]))
         ELSE Null

\* time is "start" or "end"
parse_time(json, time) ==
    IF json[time] = Null THEN Null
    ELSE IF NaiveDateTime_parse_from_str(json[time][1])
         THEN Some(format_HM(json[time][1]))
         ELSE Null

construct_code(json) ==
    IF json.scolaryear = Null THEN Null
    ELSE IF json.codemodule = Null THEN Null
    ELSE IF json.codeinstance = Null THEN Null
    ELSE IF json.codeacti = Null THEN Null
    ELSE IF json.codeevent = Null THEN Null
    ELSE Some([year |-> json.scolaryear[1],
               module |-> json.codemodule[1],
               instance |-> json.codeinstance[1],
               acti |-> json.codeacti[1],
               event |-> json.codeevent[1]])

\* the page path without the activity segment
Event_intra_page_no_acti(code) ==
    "/module/" \o code.year \o "/" \o code.module \o "/" \o code.instance

Event_intra_page(code) ==
    "/module/" \o code.year \o "/" \o code.module \o "/" \o code.instance
        \o "/" \o code.acti

Event_code(code) ==
    "/module/" \o code.year \o "/" \o code.module \o "/" \o code.instance
        \o "/" \o code.acti \o "/" \o code.event

\* a String is the sequence of its (one-byte) characters
Talk == <<"T", "a", "l", "k">>
Workshop == <<"W", "o", "r", "k">>

\* a record of the planning as the intranet sends it: the fields list_events
\* reads, each absent (Null) or set
CompleteEvent(title, codeevent) ==
    [is_rdv |-> Some("0"),
     scolaryear |-> Some("2019"),
     codemodule |-> Some("B-INN-000"),
     codeinstance |-> Some("PAR-0-1"),
     codeacti |-> Some("acti-1"),
     codeevent |-> Some(codeevent),
     acti_title |-> Some(title),
     titlemodule |-> Some("Hub"),
     start |-> Some(Ymdhms(2020, 7, 1, 9, 5, 0)),
     end |-> Some(Ymdhms(2020, 7, 1, 10, 30, 0))]

Without(json, fields) ==
    [f \in DOMAIN json |-> IF f \in fields THEN Null ELSE json[f]]

EventFields ==
    {"scolaryear", "codemodule", "codeinstance", "codeacti", "codeevent",
     "acti_title", "titlemodule", "start", "end"}

\* the sets of fields a record of the planning lacks
MissingFields ==
    {{"codeevent"}, {"acti_title"}, {"titlemodule"}, {"start"}, {"end"},
     {"acti_title", "end"}, {"titlemodule", "start", "end"}}

RawEvents ==
    {CompleteEvent(Talk, "event-1"), CompleteEvent(Workshop, "event-2")}
        \cup {[CompleteEvent(Talk, "event-1") EXCEPT !.is_rdv = Some("1")]}
        \cup {Without([CompleteEvent(Talk, "event-1") EXCEPT !.is_rdv = Some("1")],
                      EventFields)}
        \cup {Without(CompleteEvent(Talk, "event-1"), {"is_rdv"})}
        \cup {Without(CompleteEvent(Talk, "event-1"), m) : m \in MissingFields}
        \cup {[CompleteEvent(Talk, "event-1") EXCEPT !.end = Some(Text)]}

\* the dates a caller hands to list_events
RawDates == {Ymd(2020, 7, 1), Ymd(2021, 2, 29), Ymd(2020, 13, 1), Text}

ListReplies ==
    {r \in Replies : r.body = NoBody}
        \cup {[conn |-> TRUE, status |-> OK, readable |-> TRUE,
               body |-> [kind |-> "garbage", items |-> <<>>]]}
        \cup {[conn |-> TRUE, status |-> OK, readable |-> TRUE,
               body |-> [kind |-> "array", items |-> q]] :
                    q \in SeqsUpTo(RawEvents, MaxEvents)}

\* every record whose is_rdv is set counts as an event with tokens
is_token_event_if_set(event) == event.is_rdv # Null

\* the match on event["is_rdv"]: only "0" is an event that can have tokens
is_token_event(event) == event.is_rdv = Some("0")

\* the body of the for loop of list_events for an event with tokens: the
\* Event pushed, or the error returned
event_from_json(event) ==
    IF construct_code(event) = Null THEN Err("EventURL")
    ELSE IF event.acti_title = Null THEN Err("Title")
    ELSE IF event.titlemodule = Null THEN Err("Module")
    ELSE IF parse_time(event, "start") = Null THEN Err("TimeStart")
    ELSE IF parse_time(event, "end") = Null THEN Err("TimeEnd")
    ELSE [ok |-> TRUE, err |-> "",
          val |-> [code |-> construct_code(event)[1],
                   title |-> event.acti_title[1],
                   module |-> event.titlemodule[1],
                   start |-> parse_time(event, "start")[1],
                   end |-> parse_time(event, "end")[1],
                   students |-> <<>>]]

\* an insert at the head of the list
push_front(list, event) == <<event>> \o list

\* Vec::push
push(list, event) == Append(list, event)

\* the for loop of list_events from record i on: list and the result
RECURSIVE list_events_loop(_, _, _, _)
list_events_loop(list, json, i, number_events) ==
    IF i > Len(json) THEN [list |-> list, ret |-> Ok(number_events)]
    ELSE IF ~is_token_event(json[i])
         THEN list_events_loop(list, json, i + 1, number_events)
         ELSE LET event == event_from_json(json[i])
              IN IF ~event.ok THEN [list |-> list, ret |-> event]
                 ELSE list_events_loop(push(list, event.val), json, i + 1,
                                       number_events + 1)

\* the Empty of the transport returned to the caller as any other error
list_events_empty_is_error(list, raw_date, reply) ==
    IF ~NaiveDate_parse_from_str(raw_date)
    THEN [list |-> list, ret |-> Err("ParseError"), requests |-> 0]
    ELSE LET json == get_array_obj(reply)
         IN IF ~json.ok
            THEN [list |-> <<>>, ret |-> json, requests |-> 1]
            ELSE LET r == list_events_loop(<<>>, json.val, 1, 0)
                 IN [list |-> r.list, ret |-> r.ret, requests |-> 1]

\* the date checked after the list is cleared and the request sent
list_events_date_last(list, raw_date, reply) ==
    LET json == get_array_obj(reply)
    IN IF ~NaiveDate_parse_from_str(raw_date)
       THEN [list |-> <<>>, ret |-> Err("ParseError"), requests |-> 1]
       ELSE IF ~json.ok
            THEN IF json.err = "Empty"
                 THEN [list |-> <<>>, ret |-> Ok(0), requests |-> 1]
                 ELSE [list |-> <<>>, ret |-> json, requests |-> 1]
            ELSE LET r == list_events_loop(<<>>, json.val, 1, 0)
                 IN [list |-> r.list, ret |-> r.ret, requests |-> 1]

\* list, the result, and the number of requests sent to the intranet
list_events(list, raw_date, reply) ==
    IF ~NaiveDate_parse_from_str(raw_date)
    THEN [list |-> list, ret |-> Err("ParseError"), requests |-> 0]
    ELSE LET json == get_array_obj(reply)
         IN IF ~json.ok
            THEN IF json.err = "Empty"
                 THEN [list |-> <<>>, ret |-> Ok(0), requests |-> 1]
                 ELSE [list |-> <<>>, ret |-> json, requests |-> 1]
            ELSE LET r == list_events_loop(<<>>, json.val, 1, 0)
                 IN [list |-> r.list, ret |-> r.ret, requests |-> 1]

(***************************************************************************)
(* A single event (event.rs)                                               *)
(***************************************************************************)
\* the thread panics: the call returns nothing
Panic == [ok |-> FALSE, val |-> 0, err |-> "panic"]

\* get_obj: any JSON text is a value; a value that is no object answers Null
\* to every index by a field name
get_obj(reply) ==
    LET intra_request == get_content(reply)
    IN IF ~intra_request.ok THEN intra_request
       ELSE IF intra_request.val.kind = "object"
            THEN [ok |-> TRUE, val |-> intra_request.val.items[1], err |-> ""]
       ELSE IF intra_request.val.kind = "array"
            THEN [ok |-> TRUE, err |-> "",
                  val |-> [f \in (EventFields \ {"titlemodule"}) \cup {"module_title"}
                            |-> Null]]
            ELSE Err("Parsing")

\* bytes of a character in UTF-8: "U+00E9" stands for a character of two bytes
Utf8Len(c) == IF c = "U+00E9" THEN 2 ELSE 1

\* String::len: the length in bytes
RECURSIVE ByteLen(_)
ByteLen(t) == IF t = <<>> THEN 0 ELSE Utf8Len(Head(t)) + ByteLen(Tail(t))

\* str::is_char_boundary for an index of at least one: false beyond the end
is_char_boundary(t, at) == \E k \in 0..Len(t) : ByteLen(SubSeq(t, 1, k)) = at

\* Null when split_off panics: the index is beyond the end of the title or
\* inside a character; first.pop() removes the last character of first
get_title_single_event(title) ==
    LET at == (ByteLen(title) \div 2) + 1
    IN IF ~is_char_boundary(title, at) THEN Null
       ELSE LET k == CHOOSE k \in 0..Len(title) : ByteLen(SubSeq(title, 1, k)) = at
                second == SubSeq(title, k + 1, Len(title))
                first == SubSeq(title, 1, k - 1)
            IN IF first = second THEN Some(first) ELSE Some(title)

\* longest title handed to get_title_single_event, in characters
MaxTitle == 4

\* the characters of a title: letters, a space, a character of two bytes
TitleChars == {"a", "b", " ", "U+00E9"}

Titles == SeqsUpTo(TitleChars, MaxTitle)

get_event(reply) ==
    LET json == get_obj(reply)
    IN IF ~json.ok THEN json
       ELSE IF construct_code(json.val) = Null THEN Err("EventURL")
       ELSE IF json.val.acti_title = Null THEN Err("Title")
       ELSE IF get_title_single_event(json.val.acti_title[1]) = Null THEN Panic
       ELSE IF json.val.module_title = Null THEN Err("Module")
       ELSE IF parse_time(json.val, "start") = Null THEN Err("TimeStart")
       ELSE IF parse_time(json.val, "end") = Null THEN Err("TimeEnd")
       ELSE [ok |-> TRUE, err |-> "",
             val |-> [code |-> construct_code(json.val)[1],
                      title |-> get_title_single_event(json.val.acti_title[1])[1],
                      module |-> json.val.module_title[1],
                      start |-> parse_time(json.val, "start")[1],
                      end |-> parse_time(json.val, "end")[1],
                      students |-> <<>>]]

\* the page of one event as the intranet sends it
CompleteObject(title) ==
    [scolaryear |-> Some("2019"),
     codemodule |-> Some("B-INN-000"),
     codeinstance |-> Some("PAR-0-1"),
     codeacti |-> Some("acti-1"),
     codeevent |-> Some("event-1"),
     acti_title |-> Some(title),
     module_title |-> Some("Hub"),
     start |-> Some(Ymdhms(2020, 7, 1, 9, 5, 0)),
     end |-> Some(Ymdhms(2020, 7, 1, 10, 30, 0))]

\* a title, a title the intranet sends twice, and an empty title
ObjectTitles == {Talk, <<"a", " ", "a">>, <<>>}

MissingObjectFields ==
    {{"codeacti"}, {"acti_title"}, {"module_title"}, {"start"}, {"end"},
     {"module_title", "end"}}

RawObjects ==
    {CompleteObject(t) : t \in ObjectTitles}
        \cup {Without(CompleteObject(t), m) : t \in ObjectTitles, m \in MissingObjectFields}
        \cup {[CompleteObject(Talk) EXCEPT !.start = Some(Text)]}

ObjectReplies ==
    {r \in Replies : r.body = NoBody}
        \cup {[conn |-> TRUE, status |-> OK, readable |-> TRUE, body |-> b] :
                b \in {[kind |-> "garbage", items |-> <<>>],
                       [kind |-> "array", items |-> <<>>]}}
        \cup {[conn |-> TRUE, status |-> OK, readable |-> TRUE,
               body |-> [kind |-> "object", items |-> <<o>>]] : o \in RawObjects}

(***************************************************************************)
(* Requests sent to the intranet (intra.rs, as event.rs calls it)          *)
(***************************************************************************)
\* what the intranet answers to the first request of a call and what it
\* would answer to a second one
Streams(first, second) == {<<a, b>> : a \in first, b \in second}

\* one request (reqwest::get, or post(..).send()): the reply to it, and the
\* replies left for the requests that follow
send(stream) == [reply |-> Head(stream), rest |-> Tail(stream)]

\* Event::fetch_students: list, the result and the number of requests sent
Event_fetch_students(list, stream) ==
    LET sent == send(stream)
        r == fetch_students(list, sent.reply)
    IN [list |-> r.list, ret |-> r.ret, requests |-> Len(stream) - Len(sent.rest)]

\* a save that posts the roster again when the first POST fails
Event_save_changes_retrying(list, stream) ==
    LET sent == send(stream)
        r == save_changes(list, sent.reply)
        again == send(sent.rest)
    IN IF r.ret.ok
       THEN [students |-> r.students, posted |-> r.posted, ret |-> r.ret,
             requests |-> Len(stream) - Len(sent.rest)]
       ELSE [students |-> r.students, posted |-> r.posted,
             ret |-> save_changes(list, again.reply).ret,
             requests |-> Len(stream) - Len(again.rest)]

\* Event::save_changes: the roster, the form, the result and the number of
\* requests sent
Event_save_changes(list, stream) ==
    LET sent == send(stream)
        r == save_changes(list, sent.reply)
    IN [students |-> r.students, posted |-> r.posted, ret |-> r.ret,
        requests |-> Len(stream) - Len(sent.rest)]

\* list_events: the request is sent after the date is accepted
list_events_sending(list, raw_date, stream) ==
    IF ~NaiveDate_parse_from_str(raw_date)
    THEN [list |-> list_events(list, raw_date, NoReply).list,
          ret |-> list_events(list, raw_date, NoReply).ret,
          requests |-> 0]
    ELSE LET sent == send(stream)
             r == list_events(list, raw_date, sent.reply)
         IN [list |-> r.list, ret |-> r.ret, requests |-> Len(stream) - Len(sent.rest)]

\* replies to a GET of a roster, to a GET of the planning, and the replies a
\* second request would meet
RosterFirst ==
    {r \in Replies : r.body = NoBody}
        \cup {[conn |-> TRUE, status |-> OK, readable |-> TRUE,
               body |-> [kind |-> "array", items |-> <<s>>]] :
                    s \in {x \in RawStudents : x.present # Some("")}}

RosterSecond ==
    {NoReply,
     [conn |-> TRUE, status |-> OK, readable |-> TRUE,
      body |-> [kind |-> "array",
                items |-> <<[login |-> Some("b@x"), title |-> Some("Ann"),
                             present |-> Some("present")]>>]]}

PlanningFirst ==
    {r \in Replies : r.body = NoBody}
        \cup {[conn |-> TRUE, status |-> OK, readable |-> TRUE,
               body |-> [kind |-> "array", items |-> <<e>>]] :
                    e \in {CompleteEvent(Talk, "event-1"),
                           Without(CompleteEvent(Talk, "event-1"), {"end"})}}

PlanningSecond ==
    {NoReply,
     [conn |-> TRUE, status |-> OK, readable |-> TRUE,
      body |-> [kind |-> "array", items |-> <<CompleteEvent(Workshop, "event-2")>>]]}

PostSecond ==
    {NoReply, [conn |-> TRUE, status |-> OK, readable |-> TRUE, body |-> NoBody]}

(***************************************************************************)
(* Authentication (auth.rs)                                                *)
(***************************************************************************)
\* "https://intra.epitech.eu/auth-" as the rule writes it: a '.' of the rule
\* stands for any character
RulePrefix ==
    <<"h", "t", "t", "p", "s", ":", "/", "/",
      "i", "n", "t", "r", "a", ".", "e", "p", "i", "t", "e", "c", "h", ".", "e", "u",
      "/", "a", "u", "t", "h", "-">>

\* {40} of the rule
TokenLen == 40

\* [a-z0-9]
TokenChars ==
    {"a", "b", "c", "d", "e", "f", "g", "h", "i", "j", "k", "l", "m", "n", "o", "p",
     "q", "r", "s", "t", "u", "v", "w", "x", "y", "z",
     "0", "1", "2", "3", "4", "5", "6", "7", "8", "9"}

\* a check that accepts every link
check_autologin_any(new) == TRUE

\* re.is_match(new) for "^(https://intra.epitech.eu/auth-[a-z0-9]{40})$"
check_autologin(new) ==
    /\ Len(new) = Len(RulePrefix) + TokenLen
    /\ \A i \in 1..Len(RulePrefix) : RulePrefix[i] = "." \/ new[i] = RulePrefix[i]
    /\ \A i \in (Len(RulePrefix) + 1)..Len(new) : new[i] \in TokenChars

\* json[field].as_str(): Null when the value has no such field
as_str(json, field) == IF field \in DOMAIN json THEN json[field] ELSE Null

\* Status
SignedIn == [tag |-> "SignedIn", err |-> ""]
SignedOut == [tag |-> "SignedOut", err |-> ""]
Status_Error(e) == [tag |-> "Error", err |-> e]

\* Auth::new(): Default::default()
Auth_new == [autologin |-> Null, login |-> Null, name |-> Null, status |-> SignedOut]

\* Auth::sign_in: the Auth, the result and the number of requests sent
Auth_sign_in(self, autologin, reply) ==
    IF ~check_autologin(autologin)
    THEN [auth |-> [self EXCEPT !.status = Status_Error("Credentials")],
          ret |-> Err("Credentials"), requests |-> 0]
    ELSE LET json == get_obj(reply)
         IN IF ~json.ok
            THEN [auth |-> [self EXCEPT !.status = Status_Error(json.err)],
                  ret |-> json, requests |-> 1]
            ELSE IF as_str(json.val, "login") = Null
            THEN [auth |-> [self EXCEPT !.status = Status_Error("NoLogin")],
                  ret |-> Err("NoLogin"), requests |-> 1]
            ELSE IF as_str(json.val, "title") = Null
            THEN [auth |-> [self EXCEPT !.status = Status_Error("NoName")],
                  ret |-> Err("NoName"), requests |-> 1]
            ELSE [auth |-> [autologin |-> Some(autologin),
                            login |-> as_str(json.val, "login"),
                            name |-> as_str(json.val, "title"),
                            status |-> SignedIn],
                  ret |-> Ok(0), requests |-> 1]

\* Auth::sign_out
Auth_sign_out(self) ==
    [autologin |-> Null, login |-> Null, name |-> Null, status |-> SignedOut]

RECURSIVE Rep(_, _)
Rep(c, n) == IF n = 0 THEN <<>> ELSE <<c>> \o Rep(c, n - 1)

\* the rule's prefix with `c` where the rule has a '.'
PrefixWith(c) == [i \in 1..Len(RulePrefix) |-> IF RulePrefix[i] = "." THEN c ELSE RulePrefix[i]]

\* links a caller signs in with: two well-formed ones, one that the rule
\* accepts with other characters for its dots, and malformed ones (a token too
\* short, too long, in upper case, a line feed after the link, another
\* scheme, no text)
Autologins ==
    {PrefixWith(".") \o Rep("a", TokenLen),
     PrefixWith(".") \o Rep("7", TokenLen - 1) \o <<"z">>,
     PrefixWith("x") \o Rep("a", TokenLen),
     PrefixWith(".") \o Rep("a", TokenLen - 1),
     PrefixWith(".") \o Rep("a", TokenLen + 1),
     PrefixWith(".") \o Rep("A", TokenLen),
     PrefixWith(".") \o Rep("a", TokenLen) \o <<"\n">>,
     Tail(PrefixWith(".")) \o Rep("a", TokenLen),
     <<>>}

\* the profile page of an account as the intranet sends it
Profiles ==
    {[login |-> Some(l), title |-> Some("Ann")] : l \in Logins}
        \cup {[title |-> Some("Ann")], [login |-> Some("a@x")],
              [login |-> Null, title |-> Null], [message |-> Some("revoked")]}

ProfileReplies ==
    {r \in Replies : r.body = NoBody}
        \cup {[conn |-> TRUE, status |-> OK, readable |-> TRUE, body |-> b] :
                b \in {[kind |-> "garbage", items |-> <<>>],
                       [kind |-> "array", items |-> <<>>]}}
        \cup {[conn |-> TRUE, status |-> OK, readable |-> TRUE,
               body |-> [kind |-> "object", items |-> <<o>>]] : o \in Profiles}

(***************************************************************************)
(* The methods of an Event on the Event itself (event.rs)                  *)
(***************************************************************************)
\* Event::set_student_presence(&mut self, ..)
Event_set_student_presence(self, login, presence) ==
    LET r == set_student_presence(self.students, login, presence)
    IN [self |-> [self EXCEPT !.students = r.students], ret |-> r.ret]

\* Event::set_all_students_presence(&mut self, ..)
Event_set_all_students_presence(self, presence) ==
    [self EXCEPT !.students = set_all_students_presence(self.students, presence)]

\* Event::set_remaining_students_presence(&mut self, ..)
Event_set_remaining_students_presence(self, presence) ==
    [self EXCEPT !.students = set_remaining_students_presence(self.students, presence)]

\* Event::fetch_students(&mut self, ..) on self.students()
fetch_students_of(self, reply) ==
    LET r == fetch_students(self.students, reply)
    IN [self |-> [self EXCEPT !.students = r.list], ret |-> r.ret]

\* a save that marks every student of the roster missing before the upload
save_changes_marking_all(self, reply) ==
    LET marked == set_remaining_everyone(self.students, "Missing")
        r == save_changes(marked, reply)
    IN [self |-> [self EXCEPT !.students = r.students], ret |-> r.ret]

\* Event::save_changes(&mut self, ..)
save_changes_of(self, reply) ==
    LET r == save_changes(self.students, reply)
    IN [self |-> [self EXCEPT !.students = r.students], ret |-> r.ret]

\* replies to the request of the roster of the event a caller works on
EventRosters ==
    SeqsUpTo({[login |-> Some(l), title |-> Some("Ann"), present |-> p] :
                l \in Logins, p \in {Null, Some("present")}}, MaxStudents)

EventRosterReplies ==
    {NoReply}
        \cup {[conn |-> TRUE, status |-> OK, readable |-> TRUE,
               body |-> [kind |-> "array", items |-> q]] : q \in EventRosters}

\* replies to the request of the planning of the day: one event
OneEventReplies ==
    {[conn |-> TRUE, status |-> OK, readable |-> TRUE,
      body |-> [kind |-> "array", items |-> <<e>>]] :
        e \in {CompleteEvent(Talk, "event-1"), CompleteEvent(Workshop, "event-2")}}

(***************************************************************************)
(* State machine                                                           *)
(***************************************************************************)
NoMap == [k \in {} |-> ""]

NoCall ==
    [op |-> "new", login |-> "", presence |-> "None", found |-> FALSE,
     ret |-> Ok(0), before |-> <<>>, posted |-> NoMap, reply |-> NoReply]

\* an Event as list_events and get_event construct it: students = Vec::new()
\* the caller's list is a new Vec<Event>, and nothing was listed yet
NoListing ==
    [op |-> "new", raw_date |-> Text, reply |-> NoReply, ret |-> Ok(0),
     requests |-> 0]

Init ==
    /\ students = <<>>
    /\ last = NoCall
    /\ events = <<>>
    /\ listed = NoListing
    /\ auth = Auth_new

SetStudentPresence ==
    \E login \in Logins, presence \in Presence :
        LET r == set_student_presence(students, login, presence)
        IN /\ students' = r.students
           /\ last' = [NoCall EXCEPT !.op = "set_student_presence", !.login = login,
                                     !.presence = presence, !.found = r.ret,
                                     !.before = students]
           /\ UNCHANGED <<auth, events, listed>>

SetAllStudentsPresence ==
    \E presence \in Presence :
        /\ students' = set_all_students_presence(students, presence)
        /\ last' = [NoCall EXCEPT !.op = "set_all_students_presence",
                                  !.presence = presence, !.before = students]
        /\ UNCHANGED <<auth, events, listed>>

SetRemainingStudentsPresence ==
    \E presence \in Presence :
        /\ students' = set_remaining_students_presence(students, presence)
        /\ last' = [NoCall EXCEPT !.op = "set_remaining_students_presence",
                                  !.presence = presence, !.before = students]
        /\ UNCHANGED <<auth, events, listed>>

FetchStudents ==
    \E reply \in Replies :
        LET r == fetch_students(students, reply)
        IN /\ students' = r.list
           /\ last' = [NoCall EXCEPT !.op = "fetch_students", !.ret = r.ret,
                                     !.reply = reply]
           /\ UNCHANGED <<auth, events, listed>>

SaveChanges ==
    \E reply \in PostReplies :
        LET r == save_changes(students, reply)
        IN /\ students' = r.students
           /\ last' = [NoCall EXCEPT !.op = "save_changes", !.ret = r.ret,
                                     !.before = students, !.posted = r.posted]
           /\ UNCHANGED <<auth, events, listed>>

Next ==
    \/ SetStudentPresence
    \/ SetAllStudentsPresence
    \/ SetRemainingStudentsPresence
    \/ FetchStudents
    \/ SaveChanges

Spec == Init /\ [][Next]_vars

\* texts the intranet may send as the presence of a registered student
PresenceTexts ==
    {"", "present", "absent", "N/A", "failed",
     "None", "Present", "Missing", "NotApplicable", "Failed", "oui"}

PresenceRawStudents ==
    {[login |-> Some("a@x"), title |-> Some("Ann"), present |-> p] :
        p \in {Null} \cup {Some(t) : t \in PresenceTexts}}
        \cup {[login |-> Null, title |-> Some("Ann"), present |-> Some("present")],
              [login |-> Some("a@x"), title |-> Null, present |-> Some("present")]}

PresenceReplies ==
    {r \in Replies : r.body = NoBody}
        \cup {[conn |-> TRUE, status |-> OK, readable |-> TRUE,
               body |-> [kind |-> "garbage", items |-> <<>>]]}
        \cup {[conn |-> TRUE, status |-> OK, readable |-> TRUE,
               body |-> [kind |-> "array", items |-> q]] :
                    q \in SeqsUpTo(PresenceRawStudents, MaxStudents)}

\* Event::fetch_students on replies with any text as a presence
FetchPresences ==
    \E reply \in PresenceReplies :
        LET r == fetch_students(students, reply)
        IN /\ students' = r.list
           /\ last' = [NoCall EXCEPT !.op = "fetch_students", !.ret = r.ret,
                                     !.reply = reply]
           /\ UNCHANGED <<auth, events, listed>>

NextFetch == FetchPresences

\* the roster fetched again and again, whatever the intranet sends as presence
SpecFetch == Init /\ [][NextFetch]_vars

ListEvents ==
    \E raw_date \in RawDates :
        \E reply \in IF NaiveDate_parse_from_str(raw_date) THEN ListReplies ELSE {NoReply} :
            LET r == list_events(events, raw_date, reply)
            IN /\ events' = r.list
               /\ listed' = [op |-> "list_events", raw_date |-> raw_date, reply |-> reply,
                             ret |-> r.ret, requests |-> r.requests]
               /\ UNCHANGED <<auth, students, last>>

GetEvent ==
    \E reply \in ObjectReplies :
        /\ listed' = [op |-> "get_event", raw_date |-> Text, reply |-> reply,
                      ret |-> get_event(reply), requests |-> 1]
        /\ UNCHANGED <<auth, students, last, events>>

NextList == ListEvents \/ GetEvent

\* the listing of the events of a day, called again and again on one list,
\* and the fetch of single events
SpecList == Init /\ [][NextList]_vars

\* the calls that talk to the intranet, each on the replies the intranet
\* gives to its requests in turn
SendFetchStudents ==
    \E stream \in Streams(RosterFirst, RosterSecond) :
        LET r == Event_fetch_students(students, stream)
        IN /\ students' = r.list
           /\ listed' = [op |-> "fetch_students", raw_date |-> Text,
                         reply |-> stream[1], rest |-> Tail(stream),
                         ret |-> r.ret, requests |-> r.requests]
           /\ UNCHANGED <<auth, last, events>>

SendSaveChanges ==
    \E stream \in Streams(PostReplies, PostSecond) :
        LET r == Event_save_changes(students, stream)
        IN /\ students' = r.students
           /\ listed' = [op |-> "save_changes", raw_date |-> Text,
                         reply |-> stream[1], rest |-> Tail(stream),
                         ret |-> r.ret, requests |-> r.requests]
           /\ UNCHANGED <<auth, last, events>>

SendListEvents ==
    \E raw_date \in RawDates, stream \in Streams(PlanningFirst, PlanningSecond) :
        LET r == list_events_sending(events, raw_date, stream)
        IN /\ events' = r.list
           /\ listed' = [op |-> "list_events", raw_date |-> raw_date,
                         reply |-> stream[1], rest |-> Tail(stream),
                         ret |-> r.ret, requests |-> r.requests]
           /\ UNCHANGED <<auth, students, last>>

NextSend == SendFetchStudents \/ SendSaveChanges \/ SendListEvents

SpecSend == Init /\ [][NextSend]_vars

\* Auth::sign_in with any link and any reply to the request of the profile;
\* a reply exists only when the request is sent
SignIn ==
    \E autologin \in Autologins :
        \E reply \in IF check_autologin(autologin) THEN ProfileReplies ELSE {NoReply} :
            LET r == Auth_sign_in(auth, autologin, reply)
            IN /\ auth' = r.auth
               /\ listed' = [op |-> "sign_in", raw_date |-> Text, reply |-> reply,
                             autologin |-> autologin, before |-> auth,
                             ret |-> r.ret, requests |-> r.requests]
               /\ UNCHANGED <<students, last, events>>

SignOut ==
    /\ auth' = Auth_sign_out(auth)
    /\ listed' = [op |-> "sign_out", raw_date |-> Text, reply |-> NoReply,
                  autologin |-> <<>>, before |-> auth,
                  ret |-> Ok(0), requests |-> 0]
    /\ UNCHANGED <<students, last, events>>

NextAuth == SignIn \/ SignOut

SpecAuth == Init /\ [][NextAuth]_vars

\* a caller lists the events of a day and works on the first one: it fetches
\* its roster, sets presences and saves
ListOne ==
    \E reply \in OneEventReplies :
        LET r == list_events(events, Ymd(2020, 7, 1), reply)
        IN /\ events' = r.list
           /\ last' = [NoCall EXCEPT !.op = "list_events", !.ret = r.ret]
           /\ UNCHANGED <<students, listed, auth>>

OnEventFetchStudents ==
    /\ Len(events) > 0
    /\ \E reply \in EventRosterReplies :
        LET r == fetch_students_of(events[1], reply)
        IN /\ events' = [events EXCEPT ![1] = r.self]
           /\ last' = [NoCall EXCEPT !.op = "fetch_students", !.ret = r.ret]
           /\ UNCHANGED <<students, listed, auth>>

OnEventSetStudentPresence ==
    /\ Len(events) > 0
    /\ \E login \in Logins, presence \in Presence :
        LET r == Event_set_student_presence(events[1], login, presence)
        IN /\ events' = [events EXCEPT ![1] = r.self]
           /\ last' = [NoCall EXCEPT !.op = "set_student_presence", !.login = login,
                                     !.presence = presence, !.found = r.ret]
           /\ UNCHANGED <<students, listed, auth>>

OnEventSetAllStudentsPresence ==
    /\ Len(events) > 0
    /\ \E presence \in Presence :
        /\ events' = [events EXCEPT
                        ![1] = Event_set_all_students_presence(@, presence)]
        /\ last' = [NoCall EXCEPT !.op = "set_all_students_presence",
                                  !.presence = presence]
        /\ UNCHANGED <<students, listed, auth>>

OnEventSetRemainingStudentsPresence ==
    /\ Len(events) > 0
    /\ \E presence \in Presence :
        /\ events' = [events EXCEPT
                        ![1] = Event_set_remaining_students_presence(@, presence)]
        /\ last' = [NoCall EXCEPT !.op = "set_remaining_students_presence",
                                  !.presence = presence]
        /\ UNCHANGED <<students, listed, auth>>

OnEventSaveChanges ==
    /\ Len(events) > 0
    /\ \E reply \in PostReplies :
        LET r == save_changes_of(events[1], reply)
        IN /\ events' = [events EXCEPT ![1] = r.self]
           /\ last' = [NoCall EXCEPT !.op = "save_changes", !.ret = r.ret]
           /\ UNCHANGED <<students, listed, auth>>

NextEvent ==
    \/ ListOne
    \/ OnEventFetchStudents
    \/ OnEventSetStudentPresence
    \/ OnEventSetAllStudentsPresence
    \/ OnEventSetRemainingStudentsPresence
    \/ OnEventSaveChanges

SpecEvent == Init /\ [][NextEvent]_vars

\* get_title_single_event on any title
GetTitleSingleEvent ==
    \E title \in Titles :
        /\ listed' = [op |-> "get_title_single_event", raw_date |-> Text,
                      reply |-> NoReply, title |-> title,
                      ret |-> get_title_single_event(title), requests |-> 0]
        /\ UNCHANGED <<students, last, events, auth>>

NextTitle == GetTitleSingleEvent

SpecTitle == Init /\ [][NextTitle]_vars

TypeOK ==
    /\ students \in SeqsUpTo(Student, MaxStudents)
    /\ last.op \in {"new", "set_student_presence", "set_all_students_presence",
                    "set_remaining_students_presence", "fetch_students", "save_changes"}

(***************************************************************************)
(* Properties                                                              *)
(***************************************************************************)
Decided == Presence \ {"None"}

\* the key of the student at zero-based position i, as the intranet expects it
ItemKey(i, field) == "items[" \o ToString(i) \o "][" \o field \o "]"

\* C1: the mapping handed to the upload by save_changes holds no empty
\* presence value, and every student at None when save_changes was called is
\* uploaded as "absent".
C1_SaveUploadsNoUndecided ==
    last.op = "save_changes" =>
        /\ \A i \in 1..Len(last.before) :
                last.posted[ItemKey(i - 1, "present")] # ""
        /\ \A i \in 1..Len(last.before) :
                last.before[i].presence = "None"
                    => last.posted[ItemKey(i - 1, "present")] = "absent"

\* C2: the mapping exported from a roster of n students has exactly 2n
\* entries: for every i in 0..n-1, items[i][login] maps to the login of the
\* student at position i and items[i][present] to the wire string of its
\* presence; there is no other key and every presence value is one of the
\* five wire strings.
C2_ExportIsPositional ==
    last.op = "save_changes" =>
        LET n == Len(students)
        IN /\ Cardinality(DOMAIN last.posted) = 2 * n
           /\ DOMAIN last.posted =
                {ItemKey(i, "login") : i \in 0..(n - 1)}
                    \cup {ItemKey(i, "present") : i \in 0..(n - 1)}
           /\ \A i \in 0..(n - 1) :
                /\ last.posted[ItemKey(i, "login")] = students[i + 1].login
                /\ last.posted[ItemKey(i, "present")] \in WireStrings
                /\ students[i + 1].presence = "None"
                        <=> last.posted[ItemKey(i, "present")] = ""
                /\ students[i + 1].presence = "Present"
                        <=> last.posted[ItemKey(i, "present")] = "present"
                /\ students[i + 1].presence = "Missing"
                        <=> last.posted[ItemKey(i, "present")] = "absent"
                /\ students[i + 1].presence = "NotApplicable"
                        <=> last.posted[ItemKey(i, "present")] = "N/A"
                /\ students[i + 1].presence = "Failed"
                        <=> last.posted[ItemKey(i, "present")] = "failed"

\* a roster of two students sharing one login has been exported
C2_Witness ==
    /\ last.op = "save_changes"
    /\ Len(students) = 2
    /\ students[1].login = students[2].login
    /\ students[1].presence # students[2].presence
    /\ last.posted[ItemKey(1, "present")] = "absent"

\* C3: a call of fetch_students that returns an error leaves the roster
\* exactly as it was before the call.
C3_FailedFetchKeepsRoster ==
    [][(last'.op = "fetch_students" /\ ~last'.ret.ok) => students' = students]_vars

\* C4: after fetch_students returns Ok(0) because the transport reported
\* Empty, the roster is empty.
C4_EmptyFetchEmptiesRoster ==
    (last.op = "fetch_students" /\ get_array_obj(last.reply) = Err("Empty"))
        => (last.ret = Ok(0) /\ students = <<>>)

\* C5 as stated: set_all(X) followed by set_remaining(Y) leaves every
\* student at X, for every X of the five variants, None included.
C5_SetAllThenRemainingAnyX ==
    [][(/\ last.op = "set_all_students_presence"
        /\ last'.op = "set_remaining_students_presence")
            => \A i \in 1..Len(students') : students'[i].presence = last.presence]_vars

\* C5 amended: set_all(X) followed by set_remaining(Y) leaves every student
\* at X for every decided X (Present, Missing, NotApplicable, Failed) and
\* every Y; after set_all(None), set_remaining(Y) leaves every student at Y.
C5_SetAllThenRemaining ==
    [][(/\ last.op = "set_all_students_presence"
        /\ last'.op = "set_remaining_students_presence")
            => /\ Len(students') = Len(students)
               /\ \A i \in 1..Len(students') :
                    students'[i].presence =
                        IF last.presence \in Decided THEN last.presence
                        ELSE last'.presence]_vars

\* set_remaining(Missing) has run on a full roster that is as set_all(Present)
\* leaves it, and every student is still Present
C5_Witness ==
    /\ last.op = "set_remaining_students_presence"
    /\ last.presence = "Missing"
    /\ Len(last.before) = MaxStudents
    /\ last.before = set_all_students_presence(last.before, "Present")
    /\ \A i \in 1..Len(students) : students[i].presence = "Present"

\* C6: every canonical wire string a roster fetch decodes is encoded back to
\* itself, and the empty string decodes to None.
C6_WireRoundTrip ==
    (last.op = "fetch_students" /\ last.ret.ok /\ get_array_obj(last.reply).ok) =>
        \A i \in 1..Len(students) :
            \A s \in WireStrings :
                last.reply.body.items[i].present = Some(s) =>
                    /\ Presence_to_string(students[i].presence) = s
                    /\ s = "" => students[i].presence = "None"

\* C7: set_remaining(X) is idempotent: once it has run, running it again with
\* the same X changes no student.
C7_SetRemainingIdempotent ==
    last.op = "set_remaining_students_presence" =>
        set_remaining_students_presence(students, last.presence) = students

\* set_remaining(Present) has overwritten two students that were at None
C7_Witness ==
    /\ last.op = "set_remaining_students_presence"
    /\ last.presence = "Present"
    /\ Len(last.before) = 2
    /\ \A i \in 1..2 : last.before[i].presence = "None" /\ students[i].presence = "Present"

\* C8: set_remaining(X) overwrites only the students at None: every student
\* that was at None is at X, every other student keeps its presence, and no
\* login or name changes.
C8_SetRemainingOnlyNone ==
    last.op = "set_remaining_students_presence" =>
        /\ Len(students) = Len(last.before)
        /\ \A i \in 1..Len(students) :
            /\ students[i].login = last.before[i].login
            /\ students[i].name = last.before[i].name
            /\ students[i].presence =
                    IF last.before[i].presence = "None" THEN last.presence
                    ELSE last.before[i].presence

\* set_remaining(Missing) has run on a roster with one student at None and
\* one at NotApplicable
C8_Witness ==
    /\ last.op = "set_remaining_students_presence"
    /\ last.presence = "Missing"
    /\ \E i, j \in 1..Len(last.before) :
        /\ last.before[i].presence = "None" /\ students[i].presence = "Missing"
        /\ last.before[j].presence = "NotApplicable"
        /\ students[j].presence = "NotApplicable"

\* C9: set_student_presence(login, p) returns true exactly when the roster
\* holds a student with that login; on false the roster is unchanged; on true
\* the first student with that login has presence p and every other student
\* is unchanged.
C9_SetStudentPresence ==
    last.op = "set_student_presence" =>
        LET matches == {i \in 1..Len(last.before) : last.before[i].login = last.login}
        IN /\ last.found <=> matches # {}
           /\ ~last.found => students = last.before
           /\ last.found =>
                /\ Len(students) = Len(last.before)
                /\ \E i \in matches :
                    /\ \A j \in matches : i <= j
                    /\ students[i] = [login |-> last.login,
                                      name |-> last.before[i].name,
                                      presence |-> last.presence]
                    /\ \A j \in 1..Len(students) : j # i => students[j] = last.before[j]

\* set_student_presence(b@x, Present) has found the second student of a
\* roster whose first student has another login, and changed its presence
C9_Witness ==
    /\ last.op = "set_student_presence"
    /\ last.found
    /\ last.login = "b@x"
    /\ last.presence = "Present"
    /\ Len(last.before) = 2
    /\ last.before[1].login = "a@x"
    /\ last.before[2].presence = "Missing"
    /\ students[2].presence = "Present"

\* C10: presence is a free assignment: setting p on a student leaves it at p
\* whatever its presence was (None or any decided one, p being None
\* included), and setting p again changes nothing.
C10_FreeAssignment ==
    /\ (last.op = "set_student_presence" /\ last.found) =>
            /\ students[find(last.before, last.login)].presence = last.presence
            /\ set_student_presence(students, last.login, last.presence).students = students
    /\ last.op = "set_all_students_presence" =>
            /\ Len(students) = Len(last.before)
            /\ \A i \in 1..Len(students) : students[i].presence = last.presence
            /\ set_all_students_presence(students, last.presence) = students

\* a student that was Failed has been set back to None
C10_Witness ==
    /\ last.op = "set_student_presence"
    /\ last.found
    /\ last.presence = "None"
    /\ last.before[find(last.before, last.login)].presence = "Failed"
    /\ students[find(last.before, last.login)].presence = "None"

(***************************************************************************)
(* Properties of the listing                                               *)
(***************************************************************************)
\* the last call of list_events sent its request and got a JSON array
ListedArray ==
    /\ listed.op = "list_events"
    /\ listed.requests = 1
    /\ listed.reply.conn /\ listed.reply.status = OK /\ listed.reply.readable
    /\ listed.reply.body.kind = "array"

\* a record whose marker says it is no event with tokens: is_rdv is set, to
\* something else than "0"
MarkedIneligible(json) == json.is_rdv # Null /\ json.is_rdv # Some("0")
MarkedEligible(json) == json.is_rdv = Some("0")

\* C11: a record whose eligibility marker is set and false contributes no
\* entry and no error, whatever its other fields, and the records after it are
\* processed: the call ends as it does on the same reply without such records.
C11_IneligibleOmitted ==
    ListedArray =>
        LET items == listed.reply.body.items
            kept == SelectSeq(items, LAMBDA json : ~MarkedIneligible(json))
            r == list_events(<<>>, listed.raw_date,
                             [listed.reply EXCEPT !.body.items = kept])
        IN /\ events = r.list
           /\ listed.ret = r.ret
           /\ (\A i \in 1..Len(items) : ~MarkedEligible(items[i]))
                => (events = <<>> /\ listed.ret = Ok(0))

\* an ineligible record lacking every other field came first, and the event
\* after it was listed
C11_Witness ==
    /\ ListedArray
    /\ Len(listed.reply.body.items) = 2
    /\ listed.reply.body.items[1].is_rdv = Some("1")
    /\ listed.reply.body.items[1].acti_title = Null
    /\ listed.reply.body.items[1].codeevent = Null
    /\ listed.ret = Ok(1)
    /\ Len(events) = 1
    /\ events[1].title = Workshop

\* the error of the first field, in the order code, title, module, start,
\* end, that a record lacks or that cannot be parsed; "" when there is none
FirstMissing(json) ==
    IF \E f \in {"scolaryear", "codemodule", "codeinstance", "codeacti", "codeevent"} :
            json[f] = Null
    THEN "EventURL"
    ELSE IF json.acti_title = Null THEN "Title"
    ELSE IF json.titlemodule = Null THEN "Module"
    ELSE IF json.start = Null \/ json.start[1].kind # "datetime" THEN "TimeStart"
    ELSE IF json.end = Null \/ json.end[1].kind # "datetime" THEN "TimeEnd"
    ELSE ""

\* the same for the page of one event, whose module label is module_title
FirstMissingOfObject(json) ==
    IF \E f \in {"scolaryear", "codemodule", "codeinstance", "codeacti", "codeevent"} :
            json[f] = Null
    THEN "EventURL"
    ELSE IF json.acti_title = Null THEN "Title"
    ELSE IF json.module_title = Null THEN "Module"
    ELSE IF json.start = Null \/ json.start[1].kind # "datetime" THEN "TimeStart"
    ELSE IF json.end = Null \/ json.end[1].kind # "datetime" THEN "TimeEnd"
    ELSE ""

\* C12 for list_events: the call succeeds exactly when no eligible record
\* lacks a field, and otherwise returns the error of the first field the
\* first such record lacks.
C12_ListConstruction ==
    ListedArray =>
        LET items == listed.reply.body.items
            eligible == {i \in 1..Len(items) : MarkedEligible(items[i])}
            bad == {i \in eligible : FirstMissing(items[i]) # ""}
        IN /\ listed.ret.ok <=> bad = {}
           /\ listed.ret.ok => Len(events) = Cardinality(eligible)
           /\ bad # {} =>
                \E i \in bad :
                    /\ \A j \in bad : i <= j
                    /\ listed.ret = Err(FirstMissing(items[i]))
                    /\ Len(events) = Cardinality({j \in eligible : j < i})

\* get_event got the page of an event: a JSON object
GotObject ==
    /\ listed.op = "get_event"
    /\ listed.reply.conn /\ listed.reply.status = OK /\ listed.reply.readable
    /\ listed.reply.body.kind = "object"

\* C12: an Event is constructed only from a record with all five code
\* components, the title, the module, the start and the end present and
\* parsable; otherwise the construction fails with the error of the first of
\* them that is missing, in the order EventURL, Title, Module, TimeStart,
\* TimeEnd (in list_events and in get_event).
C12_ConstructionErrors ==
    /\ C12_ListConstruction
    /\ GotObject =>
        LET json == listed.reply.body.items[1]
        IN /\ listed.ret.ok => FirstMissingOfObject(json) = ""
           /\ FirstMissingOfObject(json) # ""
                => listed.ret = Err(FirstMissingOfObject(json))

\* a record lacking both its title and its end time was reported as Title
C12_Witness ==
    /\ ListedArray
    /\ Len(listed.reply.body.items) = 1
    /\ listed.reply.body.items[1].is_rdv = Some("0")
    /\ listed.reply.body.items[1].acti_title = Null
    /\ listed.reply.body.items[1].end = Null
    /\ listed.reply.body.items[1].codeevent # Null
    /\ listed.ret = Err("Title")
    /\ events = <<>>

\* an eligible record that lacks its end time and nothing else
LacksEndOnly(json) ==
    /\ MarkedEligible(json)
    /\ json.end = Null
    /\ \A f \in EventFields \ {"end"} : json[f] # Null
    /\ json.start[1].kind = "datetime"

\* C13: an eligible record lacking only its end time makes the call fail with
\* TimeEnd; no Event is made of it, and no request but the one for the
\* planning is sent: no roster is fetched.
C13_MissingEnd ==
    ListedArray =>
        \A i \in 1..Len(listed.reply.body.items) :
            (/\ LacksEndOnly(listed.reply.body.items[i])
             /\ \A j \in 1..(i - 1) :
                    MarkedEligible(listed.reply.body.items[j])
                        => FirstMissing(listed.reply.body.items[j]) = "")
                => /\ listed.ret = Err("TimeEnd")
                   /\ listed.requests = 1
                   /\ Len(events) =
                        Cardinality({j \in 1..(i - 1) :
                                        MarkedEligible(listed.reply.body.items[j])})
                   /\ \A k \in 1..Len(events) : events[k].students = <<>>

\* the record lacking its end time came after a complete one
C13_Witness ==
    /\ ListedArray
    /\ Len(listed.reply.body.items) = 2
    /\ FirstMissing(listed.reply.body.items[1]) = ""
    /\ MarkedEligible(listed.reply.body.items[1])
    /\ LacksEndOnly(listed.reply.body.items[2])
    /\ listed.ret = Err("TimeEnd")
    /\ Len(events) = 1

\* C14: when the transport reports Empty, list_events returns Ok(0) and the
\* list is empty; it returns every other error of the transport as it is.
C14_EmptyIsSuccess ==
    (listed.op = "list_events" /\ listed.requests = 1
        /\ ~get_array_obj(listed.reply).ok) =>
            IF get_array_obj(listed.reply).err = "Empty"
            THEN listed.ret = Ok(0) /\ events = <<>>
            ELSE /\ listed.ret = get_array_obj(listed.reply)
                 /\ listed.ret.err \in
                        {"Network", "AccessDenied", "NotFound", "IntraDown", "Parsing"}

\* a reply without text was listed as no event
C14_Witness ==
    /\ listed.op = "list_events"
    /\ listed.requests = 1
    /\ listed.reply.conn /\ listed.reply.status = OK /\ listed.reply.readable
    /\ listed.reply.body.kind = "empty"
    /\ listed.ret = Ok(0)
    /\ events = <<>>

\* dates that are no calendar date
MalformedDates == {Text, Ymd(2021, 2, 29), Ymd(2020, 13, 1)}

\* C15: with a malformed date list_events returns an error, sends no request
\* and leaves the caller's list as it was.
C15_DateCheckedFirst ==
    [][(listed'.op = "list_events" /\ listed'.raw_date \in MalformedDates)
        => /\ ~listed'.ret.ok
           /\ listed'.requests = 0
           /\ events' = events]_vars

\* a list of two events has gone through a call with the 29th of February of
\* a common year
C15_Witness ==
    /\ listed.op = "list_events"
    /\ listed.raw_date = Ymd(2021, 2, 29)
    /\ ~listed.ret.ok
    /\ listed.requests = 0
    /\ Len(events) = 2

\* C16: on success the list is the eligible records of the reply, in the
\* order of the reply, duplicates kept, and the count returned is its length.
C16_ResponseOrder ==
    (ListedArray /\ listed.ret.ok) =>
        LET eligible == SelectSeq(listed.reply.body.items, MarkedEligible)
        IN /\ Len(events) = Len(eligible)
           /\ listed.ret.val = Len(events)
           /\ \A k \in 1..Len(events) :
                /\ events[k].title = eligible[k].acti_title[1]
                /\ events[k].module = eligible[k].titlemodule[1]
                /\ events[k].code.event = eligible[k].codeevent[1]
                /\ events[k].code.year = eligible[k].scolaryear[1]

\* the same record twice in the reply is twice in the list
C16_Witness ==
    /\ ListedArray
    /\ listed.ret = Ok(2)
    /\ listed.reply.body.items[1] = listed.reply.body.items[2]
    /\ Len(events) = 2
    /\ events[1] = events[2]
    /\ events[1].start = "09:05"

\* C17: the API path of an event is its intranet page path followed by "/"
\* and the event component, for every code.
C17_CodeExtendsPage ==
    \A k \in 1..Len(events) :
        /\ Event_code(events[k].code)
                = Event_intra_page(events[k].code) \o "/" \o events[k].code.event
        /\ Event_intra_page(events[k].code)
                = "/module/" \o events[k].code.year \o "/" \o events[k].code.module
                    \o "/" \o events[k].code.instance \o "/" \o events[k].code.acti

\* the paths of a listed event
C17_Witness ==
    /\ Len(events) = 2
    /\ events[1].code.event # events[2].code.event
    /\ Event_code(events[2].code) = "/module/2019/B-INN-000/PAR-0-1/acti-1/event-2"
    /\ Event_intra_page(events[2].code) = "/module/2019/B-INN-000/PAR-0-1/acti-1"

(***************************************************************************)
(* Properties of the roster and of the transport                           *)
(***************************************************************************)
\* C18: no two students of the roster have the same login.
C18_UniqueLogins ==
    \A i, j \in 1..Len(students) :
        i # j => students[i].login # students[j].login

\* C19: a body with text that is no JSON array is reported as Parsing, not as
\* Empty: list_events does not succeed with no event on it.
C19_MalformedIsParsing ==
    (/\ listed.op = "list_events"
     /\ listed.requests = 1
     /\ listed.reply.conn /\ listed.reply.status = OK /\ listed.reply.readable
     /\ listed.reply.body.kind = "garbage")
        => listed.ret = Err("Parsing")

\* the last fetch got a JSON array
FetchedArray ==
    /\ last.op = "fetch_students"
    /\ last.reply.conn /\ last.reply.status = OK /\ last.reply.readable
    /\ last.reply.body.kind = "array"

HasLoginAndName(raw) == raw.login # Null /\ raw.title # Null

\* the variant of a known wire string
KnownWire(t) ==
    CASE t = "present" -> "Present"
      [] t = "absent" -> "Missing"
      [] t = "N/A" -> "NotApplicable"
      [] t = "failed" -> "Failed"

\* a fetch fails on an error of the transport or on a record without login or
\* name, and on nothing else
FetchFailsOnlyOn ==
    last.op = "fetch_students" =>
        /\ ~last.ret.ok =>
            \/ /\ ~get_array_obj(last.reply).ok
               /\ last.ret.err \in {"Network", "AccessDenied", "NotFound",
                                    "IntraDown", "Parsing"}
            \/ /\ FetchedArray
               /\ \E i \in 1..Len(last.reply.body.items) :
                    ~HasLoginAndName(last.reply.body.items[i])
               /\ last.ret.err \in {"Login", "Name"}
        /\ (FetchedArray /\ \A i \in 1..Len(last.reply.body.items) :
                                HasLoginAndName(last.reply.body.items[i]))
                => (last.ret = Ok(Len(students))
                        /\ Len(students) = Len(last.reply.body.items))

FirstReplyFails ==
    /\ ~get_array_obj(listed.reply).ok
    /\ get_array_obj(listed.reply).err # "Empty"

\* C21: the core never retries: a save sends exactly one POST, a roster
\* fetch and a list_events send at most one GET, and when that request fails
\* the failure of that request is what the call returns, whatever a second
\* request would have met.
C21_NeverRetries ==
    /\ listed.op = "save_changes" =>
        /\ listed.requests = 1
        /\ listed.ret = update_presences(listed.reply)
    /\ listed.op = "fetch_students" =>
        /\ listed.requests <= 1
        /\ FirstReplyFails => listed.ret = get_array_obj(listed.reply)
    /\ listed.op = "list_events" =>
        /\ listed.requests <= 1
        /\ (listed.requests = 1 /\ FirstReplyFails)
                => listed.ret = get_array_obj(listed.reply)

\* a save whose POST failed although a second POST would have succeeded
C21_Witness ==
    /\ listed.op = "save_changes"
    /\ ~update_presences(listed.reply).ok
    /\ update_presences(listed.rest[1]).ok
    /\ ~listed.ret.ok
    /\ listed.requests = 1
    /\ Len(students) > 0

\* the links of the autologin format among those signed in with
WellFormedLinks ==
    {PrefixWith(c) \o t : c \in {".", "x"}, t \in {Rep("a", TokenLen)}}
        \cup {PrefixWith(".") \o Rep("7", TokenLen - 1) \o <<"z">>}

\* the request of the profile was answered with a JSON object
GotProfile ==
    /\ listed.reply.conn /\ listed.reply.status = OK /\ listed.reply.readable
    /\ listed.reply.body.kind = "object"

ProfileField(field) ==
    LET profile == listed.reply.body.items[1]
    IN IF field \in DOMAIN profile THEN profile[field] ELSE Null

\* C22: sign_in checks the shape of the link before any request: a link that
\* is not of the autologin format fails with Credentials and no request is
\* sent; on success the stored autologin is the link passed in, login and
\* name are those of the profile and the status is SignedIn; a profile
\* without a login fails with NoLogin.
C22_SignIn ==
    listed.op = "sign_in" =>
        /\ listed.autologin \notin WellFormedLinks =>
            /\ listed.ret = Err("Credentials")
            /\ listed.requests = 0
        /\ listed.ret.ok =>
            /\ listed.autologin \in WellFormedLinks
            /\ GotProfile
            /\ auth.autologin = Some(listed.autologin)
            /\ auth.login = ProfileField("login") /\ auth.login # Null
            /\ auth.name = ProfileField("title") /\ auth.name # Null
            /\ auth.status = SignedIn
        /\ (listed.autologin \in WellFormedLinks /\ GotProfile
                /\ ProfileField("login") = Null)
            => listed.ret = Err("NoLogin")

\* a link with a line feed after it was refused, on an Auth signed in before
C22_Witness ==
    /\ listed.op = "sign_in"
    /\ listed.autologin = PrefixWith(".") \o Rep("a", TokenLen) \o <<"\n">>
    /\ listed.ret = Err("Credentials")
    /\ listed.requests = 0
    /\ listed.before.status = SignedIn

\* autologin, login and name are all set
IdentitySet(a) == a.autologin # Null /\ a.login # Null /\ a.name # Null

\* C23: in every reachable state of the Auth, autologin, login and name are
\* all set if and only if the status is SignedIn (a failed sign_in after a
\* successful one leaves no identity under an Error status), and sign_out
\* returns the Auth to the state of Auth::new().
C23_IdentityIffSignedIn ==
    /\ IdentitySet(auth) <=> auth.status = SignedIn
    /\ listed.op = "sign_out" => auth = Auth_new

\* the errors of the construction of an Event from a record
ConstructionErrs == {"EventURL", "Title", "Module", "TimeStart", "TimeEnd"}

\* C24: list_events is all-or-nothing on the caller's list: on Ok the list
\* holds exactly the events of this reply, and on an error raised by an
\* invalid record it holds none of the events of this reply that were parsed
\* before that record.
C24_AllOrNothing ==
    ListedArray =>
        /\ listed.ret.ok =>
            /\ Len(events) = Len(SelectSeq(listed.reply.body.items, MarkedEligible))
            /\ events = list_events(<<>>, listed.raw_date, listed.reply).list
        /\ (~listed.ret.ok /\ listed.ret.err \in ConstructionErrs) => events = <<>>

\* C25: a successful roster fetch with a non-empty response replaces the
\* roster: afterwards the roster is the students of the response, in the
\* order of the response, with the presences decoded from it (earlier students
\* and local edits are gone), and the count returned is the roster's length.
C25_FetchReplacesRoster ==
    (/\ last.op = "fetch_students"
     /\ last.ret.ok
     /\ get_array_obj(last.reply).ok
     /\ Len(last.reply.body.items) > 0) =>
        LET items == last.reply.body.items
        IN /\ Len(students) = Len(items)
           /\ last.ret = Ok(Len(students))
           /\ \A i \in 1..Len(items) :
                /\ students[i].login = items[i].login[1]
                /\ students[i].name = items[i].title[1]
                /\ students[i].presence =
                        IF items[i].present = Null THEN "None"
                        ELSE Presence_from(items[i].present[1])

\* two students fetched, in the order of the response, one marked present
\* and one with no presence
C25_Witness ==
    /\ last.op = "fetch_students"
    /\ last.ret = Ok(2)
    /\ last.reply.body.items[1].login = Some("b@x")
    /\ last.reply.body.items[1].present = Some("present")
    /\ last.reply.body.items[2].login = Some("a@x")
    /\ last.reply.body.items[2].present = Null
    /\ students[1] = [login |-> "b@x", name |-> "Ann", presence |-> "Present"]
    /\ students[2] = [login |-> "a@x", name |-> "Ann", presence |-> "None"]

\* a presence mutator or a save was called
MutatorOrSave ==
    last'.op \in {"set_student_presence", "set_all_students_presence",
                  "set_remaining_students_presence", "save_changes"}

\* C26: no presence mutator and no save changes the length of the roster,
\* the order of its students, a login or a name, nor the code, title, module,
\* start or end of the event; a save, successful or failed, changes the
\* presence of no student that is not at None.
C26_Frame ==
    [][MutatorOrSave =>
        /\ Len(events') = Len(events)
        /\ events'[1].code = events[1].code
        /\ events'[1].title = events[1].title
        /\ events'[1].module = events[1].module
        /\ events'[1].start = events[1].start
        /\ events'[1].end = events[1].end
        /\ Len(events'[1].students) = Len(events[1].students)
        /\ \A i \in 1..Len(events[1].students) :
            /\ events'[1].students[i].login = events[1].students[i].login
            /\ events'[1].students[i].name = events[1].students[i].name
            /\ (last'.op = "save_changes" /\ events[1].students[i].presence # "None")
                => events'[1].students[i].presence = events[1].students[i].presence
      ]_vars

\* a failed save on a roster with a student marked present and one undecided,
\* the second student being the one set by the last mutator
C26_Witness ==
    /\ last.op = "save_changes"
    /\ ~last.ret.ok
    /\ Len(events) = 1
    /\ events[1].title = Workshop
    /\ Len(events[1].students) = 2
    /\ events[1].students[1].login = "b@x"
    /\ events[1].students[1].presence = "None"
    /\ events[1].students[2].login = "a@x"
    /\ events[1].students[2].presence = "Failed"

\* the title is X, one character, X: the set of such X (at most one)
SingleParts(title) ==
    {X \in {SubSeq(title, 1, k) : k \in 0..Len(title)} :
        \E c \in TitleChars : title = X \o <<c>> \o X}

\* C27: get_title_single_event returns the single part X when the title is X
\* followed by one separator character followed by X, and the title unchanged
\* otherwise; it returns a result for every title, the empty one and the
\* titles of one character included.
C27_TitleCleanUp ==
    listed.op = "get_title_single_event" =>
        /\ listed.ret # Null
        /\ \A X \in SingleParts(listed.title) : listed.ret = Some(X)
        /\ SingleParts(listed.title) = {} => listed.ret = Some(listed.title)

\* the results that are returned are the ones C27 describes
C27_ReturnedTitles ==
    (listed.op = "get_title_single_event" /\ listed.ret # Null) =>
        /\ \A X \in SingleParts(listed.title) : listed.ret = Some(X)
        /\ SingleParts(listed.title) = {} => listed.ret = Some(listed.title)
====
